---- MODULE Spec2Model ----
(***************************************************************************)
(* Hedge allocation and price fixing (src/hedging/PriceFixingDialog.tsx),   *)
(* the hedging summary of an order (HedgingSummarySection, same file) and  *)
(* the ticket matching optimizer (OptimizeMatching,                        *)
(* src/GeneratedDocumentsList.tsx).                                        *)
(*                                                                         *)
(* The store holds the three tables the dialog writes: pricing_fixing,     *)
(* hedge_link and hedge_execution.  Every session is one mounted           *)
(* PriceFixingDialog: its React state, its two react-query caches and the  *)
(* position of its running fixingMutation.  Each awaited supabase call of  *)
(* mutationFn is one step, so other sessions interleave between the calls. *)
(*                                                                         *)
(* Quantities and the prices of the hedging tables are whole numbers; a    *)
(* nullable column or an input string that may be empty is <<>> (null, "") *)
(* or <<v>>.  The prices of the optimizer are fractions [n, d].            *)
(***************************************************************************)
EXTENDS Integers, Sequences, FiniteSets, TLC

Null == <<>>
Some(v) == <<v>>

\* the exploration stops taking submits once pricing_fixing holds this many rows
MaxFixings == 2

Sessions == {"s1", "s2"}
\* the columns of hedge_execution no code of the repository writes, and the open
\* quantity each execution is created with (null, or its trade quantity)
hedge_row ==
  [h1 |-> [quantity_mt |-> 2, direction |-> "Buy", metal |-> "Cu",
           deleted_at |-> Null, request_order_id |-> "o1", executed_price |-> 1,
           created_open_quantity_mt |-> Null],
   h2 |-> [quantity_mt |-> 1, direction |-> "Buy", metal |-> "Cu",
           deleted_at |-> Null, request_order_id |-> "o2", executed_price |-> 1,
           created_open_quantity_mt |-> Some(1)],
   h3 |-> [quantity_mt |-> 1, direction |-> "Sell", metal |-> "Cu",
           deleted_at |-> Null, request_order_id |-> "o1", executed_price |-> 1,
           created_open_quantity_mt |-> Null],
   h4 |-> [quantity_mt |-> 1, direction |-> "Buy", metal |-> "Cu",
           deleted_at |-> Some("t"), request_order_id |-> "o1", executed_price |-> 1,
           created_open_quantity_mt |-> Null],
   h5 |-> [quantity_mt |-> 1, direction |-> "Buy", metal |-> "Zn",
           deleted_at |-> Null, request_order_id |-> "o1", executed_price |-> 1,
           created_open_quantity_mt |-> Null]]

\* the bl_order table (no code of the repository writes it): id, parent order
BlOrders == {"1", "2", "3"}
bl_order ==
  [b \in BlOrders |->
     [order_id |-> IF b = "3" THEN "o2" ELSE "o1",
      deleted_at |-> IF b = "2" THEN Some("t") ELSE Null]]

\* the props a caller mounts the dialog with
PriceFixingDialogProps ==
  {[level |-> "ORDER", orderId |-> "o1", blOrderId |-> "null", metal |-> "Cu",
    physicalQuantity |-> 2, side |-> "sell"]}

\* further ways of mounting it: a buy-side order, a BL order with and without the
\* optional orderId of its parent
PriceFixingDialogPropsWider ==
  PriceFixingDialogProps \cup
  {[level |-> "ORDER", orderId |-> "o1", blOrderId |-> "null", metal |-> "Cu",
    physicalQuantity |-> 2, side |-> "buy"],
   [level |-> "BL_ORDER", orderId |-> "o1", blOrderId |-> "1", metal |-> "Cu",
    physicalQuantity |-> 2, side |-> "sell"],
   [level |-> "BL_ORDER", orderId |-> "null", blOrderId |-> "1", metal |-> "Cu",
    physicalQuantity |-> 2, side |-> "sell"]}

VARIABLES
  hedge_execution,   \* [Hedges -> [open_quantity_mt, status, closed_price, closed_at]]
  pricing_fixing,    \* sequence of rows, a row's id is its position
  hedge_link,        \* set of rows
  props,             \* [Sessions -> PriceFixingDialogProps]
  open,              \* [Sessions -> BOOLEAN]
  selectedHedges,    \* [Sessions -> SUBSET Hedges], the ids mapped to true
  allocations,       \* [Sessions -> [Hedges -> AllocInputs]]
  fixingPrice,       \* [Sessions -> PriceInputs]
  showAllHedges,     \* [Sessions -> BOOLEAN]
  existingFixings,   \* [Sessions -> [loaded, data]], the "existing-fixings" query
  hedges,            \* [Sessions -> [loaded, data]], the "eligible-hedges" query
  mutation,          \* [Sessions -> [isPending, pc, todo, cur, fixingData]]
  toast,             \* [Sessions -> message of the session's latest handler]
  blOrders,          \* [loaded, data], the "bl-orders-for-order" query
  linkedHedges,      \* [loaded, data], the "linked-hedges-aggregated" query
  ticket,            \* the ticket table, a sequence of rows in arrival order
  order,             \* the order table, a sequence of the rows inserted
  mounted,           \* OptimizeMatching is on screen
  commodityType,     \* OptimizeMatching: "" or a commodity
  quantity,          \* OptimizeMatching: the Quantity input, <<>> or <<number>>
  optimizing,        \* [pc, commodityType, targetQty] of a running handleOptimize
  createOrderMutation, \* [isPending, orderData]
  toastOptimize,     \* the message of the optimizer's latest handler
  calculatedPrice    \* what calculateTicketPrice returned, <<>> before a call

summary == <<blOrders, linkedHedges>>
matching == <<ticket, order, mounted, commodityType, quantity, optimizing,
              createOrderMutation, toastOptimize, calculatedPrice>>
store == <<hedge_execution, pricing_fixing, hedge_link>>
form == <<selectedHedges, allocations, fixingPrice, showAllHedges>>
\* the executions the hedge_execution table holds
Hedges == DOMAIN hedge_execution

vars == <<hedge_execution, pricing_fixing, hedge_link, props, open, selectedHedges,
          allocations, fixingPrice, showAllHedges, existingFixings, hedges,
          mutation, toast, blOrders, linkedHedges, ticket, order, mounted,
          commodityType, quantity, optimizing, createOrderMutation, toastOptimize,
          calculatedPrice>>

Max(a, b) == IF a >= b THEN a ELSE b
Min(a, b) == IF a <= b THEN a ELSE b

RECURSIVE SumSeq(_)
SumSeq(q) == IF q = <<>> THEN 0 ELSE Head(q) + SumSeq(Tail(q))

RECURSIVE SumOver(_, _)
SumOver(S, f) ==
  IF S = {} THEN 0
  ELSE LET x == CHOOSE y \in S : TRUE IN f[x] + SumOver(S \ {x}, f)

\* parseFloat(val) || 0
ParseOrZero(val) == IF val = Null THEN 0 ELSE val[1]

\* fixingMutation when no mutationFn is running
Settled == [isPending |-> FALSE, pc |-> "settled", todo |-> {}, cur |-> "none",
            fixingData |-> 0]

\* handleOptimize and createOrderMutation when nothing is running
Idle == [pc |-> "idle", commodityType |-> "", targetQty |-> 0]
NoMutation == [isPending |-> FALSE, orderData |-> Null]

\* the dialogs and the three tables they write, hedge_execution holding the
\* executions ids
InitDialogs(ids) ==
  /\ hedge_execution =
       [h \in ids |-> [open_quantity_mt |-> hedge_row[h].created_open_quantity_mt,
                          status |-> "OPEN", closed_price |-> Null,
                          closed_at |-> Null]]
  /\ pricing_fixing = <<>>
  /\ hedge_link = {}
  /\ open = [s \in Sessions |-> FALSE]
  /\ selectedHedges = [s \in Sessions |-> {}]
  /\ allocations = [s \in Sessions |-> [h \in Hedges |-> Null]]
  /\ fixingPrice = [s \in Sessions |-> Null]
  /\ showAllHedges = [s \in Sessions |-> FALSE]
  /\ existingFixings = [s \in Sessions |-> [loaded |-> FALSE, data |-> <<>>]]
  /\ hedges = [s \in Sessions |-> [loaded |-> FALSE, data |-> {}]]
  /\ mutation = [s \in Sessions |-> Settled]
  /\ toast = [s \in Sessions |-> "none"]

InitSummary ==
  /\ blOrders = [loaded |-> FALSE, data |-> {}]
  /\ linkedHedges = [loaded |-> FALSE, data |-> {}]

InitMatching ==
  /\ order = <<>>
  /\ mounted = TRUE
  /\ commodityType = ""
  /\ quantity = Null
  /\ optimizing = Idle
  /\ createOrderMutation = NoMutation
  /\ toastOptimize = "none"
  /\ calculatedPrice = Null

Init ==
  /\ InitDialogs({"h1", "h2", "h3"})
  /\ props \in [Sessions -> PriceFixingDialogProps]
  /\ InitSummary
  /\ InitMatching
  /\ ticket = <<>>

(***************************************************************************)
(* What one render of the dialog derives from its state and its caches.    *)
(***************************************************************************)

\* alreadyFixedQty: the sum of the cached quantity_mt values, 0 before the first result
alreadyFixedQty(s) ==
  IF existingFixings[s].loaded THEN SumSeq(existingFixings[s].data) ELSE 0

availableUnfixedQty(s) == Max(0, props[s].physicalQuantity - alreadyFixedQty(s))

\* hedgesWithOpenQty: (hedges || []) with openQty = open_quantity_mt ?? quantity_mt
hedgesWithOpenQty(s) ==
  IF hedges[s].loaded
  THEN {[id |-> r.id,
         openQty |-> IF r.open_quantity_mt = Null THEN hedge_row[r.id].quantity_mt
                     ELSE r.open_quantity_mt[1]] : r \in hedges[s].data}
  ELSE {}

\* hedgesWithOpenQty.find((h) => h.id === id)
shown(s) == {r.id : r \in hedgesWithOpenQty(s)}
openQty(s, h) == (CHOOSE r \in hedgesWithOpenQty(s) : r.id = h).openQty

totalAllocation(s) ==
  SumOver(selectedHedges[s], [h \in Hedges |-> ParseOrZero(allocations[s][h])])

exceedsPhysical(s) == totalAllocation(s) > availableUnfixedQty(s)
hasValidAllocation(s) == totalAllocation(s) > 0

allocationErrors(s) ==
  {h \in selectedHedges[s] :
     /\ h \in shown(s)
     /\ ParseOrZero(allocations[s][h]) > openQty(s, h)}

hasAllocationErrors(s) == allocationErrors(s) # {}

(***************************************************************************)
(* The two queries.  A result replaces the cache; nothing else refreshes   *)
(* it, so a dialog works on what its last result showed.                   *)
(***************************************************************************)

\* the rows the "existing-fixings" query selects for the dialog's reference
FixingsOfReference(p) ==
  SelectSeq(pricing_fixing,
            LAMBDA f :
              /\ f.deleted_at = Null
              /\ IF p.level = "ORDER" /\ p.orderId # "null"
                 THEN f.order_id = p.orderId
                 ELSE IF p.level = "BL_ORDER" /\ p.blOrderId # "null"
                      THEN f.bl_order_id = p.blOrderId
                      ELSE TRUE)

RECURSIVE QuantitiesOf(_)
QuantitiesOf(rows) ==
  IF rows = <<>> THEN <<>>
  ELSE <<Head(rows).quantity_mt>> \o QuantitiesOf(Tail(rows))

\* hedgeDirection with the two directions exchanged
hedgeDirectionSameSide(p) == IF p.side = "buy" THEN "Buy" ELSE "Sell"

\* side "buy" is hedged by Sell executions, side "sell" by Buy executions
hedgeDirection(p) == IF p.side = "buy" THEN "Sell" ELSE "Buy"

\* the executions the "eligible-hedges" query returns
EligibleHedges(p, showAll) ==
  {h \in Hedges :
     /\ hedge_row[h].deleted_at = Null
     /\ hedge_execution[h].status \in {"OPEN", "PARTIALLY_CLOSED"}
     /\ hedge_row[h].direction = hedgeDirection(p)
     /\ (p.metal # "null" => hedge_row[h].metal = p.metal)
     /\ ((~showAll /\ p.orderId # "null")
           => hedge_row[h].request_order_id = p.orderId)}

\* the effect "auto-fill first selected hedge allocation", run after a render
AutoFill(sel, alloc, rows, avail) ==
  IF /\ Cardinality(sel) = 1
     /\ \E r \in rows : r.id \in sel
     /\ \A h \in sel : alloc[h] = Null
  THEN LET r == CHOOSE x \in rows : x.id \in sel
       IN  [h \in Hedges |-> IF h = r.id THEN Some(Min(avail, r.openQty)) ELSE Null]
  ELSE alloc

\* the render that follows a change of the state or of a cache
Rendered(s) ==
  allocations' =
    [allocations EXCEPT
       ![s] = AutoFill(selectedHedges'[s], @, hedgesWithOpenQty(s)',
                       availableUnfixedQty(s)')]

Editable(s) == open[s] /\ ~mutation[s].isPending

FetchExistingFixings(s) ==
  /\ Editable(s)
  /\ existingFixings' =
       [existingFixings EXCEPT
          ![s] = [loaded |-> TRUE,
                  data |-> QuantitiesOf(FixingsOfReference(props[s]))]]
  /\ UNCHANGED <<store, props, summary, matching,
                 open, selectedHedges, fixingPrice, showAllHedges,
                 hedges, mutation, toast>>
  /\ Rendered(s)

FetchEligibleHedges(s) ==
  /\ Editable(s)
  /\ props[s].metal # "null"
  /\ hedges' =
       [hedges EXCEPT
          ![s] = [loaded |-> TRUE,
                  data |-> {[id |-> h,
                             open_quantity_mt |-> hedge_execution[h].open_quantity_mt,
                             status |-> hedge_execution[h].status] :
                            h \in EligibleHedges(props[s], showAllHedges[s])}]]
  /\ UNCHANGED <<store, props, summary, matching,
                 open, selectedHedges, fixingPrice, showAllHedges,
                 existingFixings, mutation, toast>>
  /\ Rendered(s)

(***************************************************************************)
(* The dialog's handlers.                                                  *)
(***************************************************************************)

\* the parent opens the dialog; the effect on [open] resets the state
OpenDialog(s) ==
  /\ ~open[s]
  /\ ~mutation[s].isPending
  /\ open' = [open EXCEPT ![s] = TRUE]
  /\ selectedHedges' = [selectedHedges EXCEPT ![s] = {}]
  /\ allocations' = [allocations EXCEPT ![s] = [h \in Hedges |-> Null]]
  /\ fixingPrice' = [fixingPrice EXCEPT ![s] = Null]
  /\ showAllHedges' = [showAllHedges EXCEPT ![s] = FALSE]
  /\ hedges' = [hedges EXCEPT ![s] = IF showAllHedges[s]
                                     THEN [loaded |-> FALSE, data |-> {}] ELSE @]
  /\ toast' = [toast EXCEPT ![s] = "none"]
  /\ UNCHANGED <<store, props, summary, matching, existingFixings, mutation>>

\* Cancel: onOpenChange(false)
CloseDialog(s) ==
  /\ Editable(s)
  /\ open' = [open EXCEPT ![s] = FALSE]
  /\ toast' = [toast EXCEPT ![s] = "none"]
  /\ UNCHANGED <<store, props, summary, matching,
                 form, existingFixings, hedges, mutation>>

\* the checkbox of a listed row
handleToggleHedge(s, id, checked) ==
  /\ Editable(s)
  /\ id \in shown(s)
  /\ checked = (id \notin selectedHedges[s])
  /\ selectedHedges' =
       [selectedHedges EXCEPT ![s] = IF checked THEN @ \cup {id} ELSE @ \ {id}]
  /\ toast' = [toast EXCEPT ![s] = "none"]
  /\ UNCHANGED <<store, props, summary, matching,
                 open, fixingPrice, showAllHedges, existingFixings,
                 hedges, mutation>>
  /\ allocations' =
       [allocations EXCEPT
          ![s] = AutoFill(selectedHedges'[s],
                          IF checked THEN @ ELSE [@ EXCEPT ![id] = Null],
                          hedgesWithOpenQty(s), availableUnfixedQty(s))]

\* the Allocate input of a listed, selected row
handleAllocationChange(s, id, value) ==
  /\ Editable(s)
  /\ id \in shown(s)
  /\ id \in selectedHedges[s]
  /\ value # allocations[s][id]
  /\ toast' = [toast EXCEPT ![s] = "none"]
  /\ UNCHANGED <<store, props, summary, matching,
                 open, selectedHedges, fixingPrice, showAllHedges,
                 existingFixings, hedges, mutation>>
  /\ allocations' =
       [allocations EXCEPT
          ![s] = AutoFill(selectedHedges[s], [@ EXCEPT ![id] = value],
                          hedgesWithOpenQty(s), availableUnfixedQty(s))]

setFixingPrice(s, value) ==
  /\ Editable(s)
  /\ value # fixingPrice[s]
  /\ fixingPrice' = [fixingPrice EXCEPT ![s] = value]
  /\ toast' = [toast EXCEPT ![s] = "none"]
  /\ UNCHANGED <<store, props, summary, matching,
                 open, selectedHedges, allocations, showAllHedges,
                 existingFixings, hedges, mutation>>

\* the "Show all hedges" switch: the query key changes, and the query of the new
\* key has no result yet (an earlier result of that key is taken as collected)
setShowAllHedges(s, value) ==
  /\ Editable(s)
  /\ value # showAllHedges[s]
  /\ showAllHedges' = [showAllHedges EXCEPT ![s] = value]
  /\ hedges' = [hedges EXCEPT ![s] = [loaded |-> FALSE, data |-> {}]]
  /\ toast' = [toast EXCEPT ![s] = "none"]
  /\ UNCHANGED <<store, props, summary, matching,
                 open, selectedHedges, allocations, fixingPrice,
                 existingFixings, mutation>>

\* the "Create Fixing" button is disabled
submitDisabled(s) ==
  \/ mutation[s].isPending
  \/ ~hasValidAllocation(s)
  \/ exceedsPhysical(s)
  \/ hasAllocationErrors(s)

\* submitRejection with the price test written < 0 instead of <= 0
submitRejectionAllowsZeroPrice(s) ==
  IF ~hasValidAllocation(s) THEN "Please allocate quantity to at least one hedge"
  ELSE IF exceedsPhysical(s) THEN "Total allocation exceeds available unfixed quantity"
  ELSE IF hasAllocationErrors(s) THEN "Some allocations exceed hedge open quantity"
  ELSE IF fixingPrice[s] = Null \/ fixingPrice[s][1] < 0
       THEN "Please enter a valid fixing price"
  ELSE "none"

\* the toast handleSubmit returns with, "none" when it goes on to mutate()
submitRejection(s) ==
  IF ~hasValidAllocation(s) THEN "Please allocate quantity to at least one hedge"
  ELSE IF exceedsPhysical(s) THEN "Total allocation exceeds available unfixed quantity"
  ELSE IF hasAllocationErrors(s) THEN "Some allocations exceed hedge open quantity"
  ELSE IF fixingPrice[s] = Null \/ fixingPrice[s][1] <= 0
       THEN "Please enter a valid fixing price"
  ELSE "none"

\* the hedges the loop of mutationFn does not skip
loopHedges(s) ==
  {h \in selectedHedges[s] :
     ParseOrZero(allocations[s][h]) > 0 /\ h \in shown(s)}

handleSubmit(s) ==
  /\ open[s]
  /\ ~submitDisabled(s)
  /\ Len(pricing_fixing) < MaxFixings
  /\ toast' = [toast EXCEPT ![s] = submitRejection(s)]
  /\ mutation' =
       [mutation EXCEPT
          ![s] = IF submitRejection(s) = "none"
                 THEN [isPending |-> TRUE, pc |-> "insert_fixing",
                       todo |-> loopHedges(s), cur |-> "none", fixingData |-> 0]
                 ELSE @]
  /\ UNCHANGED <<store, props, summary, matching, open, form, existingFixings, hedges>>

(***************************************************************************)
(* fixingMutation.mutationFn, one step per awaited supabase call.  The     *)
(* closure reads the state and the caches of the render that submitted;    *)
(* the dialog takes no input while the mutation is pending, so they are    *)
(* the session's current ones.  The loop visits the selected ids in the    *)
(* order the user first ticked them, which is any order.                   *)
(***************************************************************************)

\* mutationFn returned: onSuccess closes the dialog
Succeeded(s) ==
  /\ mutation' = [mutation EXCEPT ![s] = Settled]
  /\ open' = [open EXCEPT ![s] = FALSE]
  /\ toast' = [toast EXCEPT ![s] = "Price fixing created successfully"]

\* 1. create the pricing_fixing record
InsertPricingFixing(s) ==
  /\ mutation[s].pc = "insert_fixing"
  /\ LET p == props[s]
         id == Len(pricing_fixing) + 1
     IN  /\ pricing_fixing' =
              Append(pricing_fixing,
                     [id |-> id,
                      level |-> p.level,
                      order_id |-> IF p.level = "ORDER" THEN p.orderId ELSE "null",
                      bl_order_id |-> IF p.level = "BL_ORDER" THEN p.blOrderId
                                      ELSE "null",
                      metal |-> p.metal,
                      quantity_mt |-> totalAllocation(s),
                      final_price |-> fixingPrice[s][1],
                      deleted_at |-> Null])
         /\ IF mutation[s].todo = {}
            THEN Succeeded(s)
            ELSE /\ mutation' = [mutation EXCEPT ![s].pc = "insert_link",
                                                 ![s].fixingData = id]
                 /\ UNCHANGED <<open, toast>>
  /\ UNCHANGED <<hedge_execution, hedge_link, props, summary, matching,
                 form, existingFixings, hedges>>

\* 2. the hedge_link of the next selected hedge
InsertHedgeLink(s, hedgeId) ==
  /\ mutation[s].pc = "insert_link"
  /\ hedgeId \in mutation[s].todo
  /\ LET p == props[s]
     IN  hedge_link' = hedge_link \cup
           {[hedge_execution_id |-> hedgeId,
             link_id |-> IF p.level = "ORDER" THEN p.orderId ELSE p.blOrderId,
             link_level |-> IF p.level = "ORDER" THEN "Order" ELSE "Bl_order",
             allocated_quantity_mt |-> ParseOrZero(allocations[s][hedgeId]),
             side |-> IF p.side = "buy" THEN "BUY" ELSE "SELL",
             exec_price |-> hedge_row[hedgeId].executed_price,
             fixing_price |-> fixingPrice[s][1],
             fixing_id |-> mutation[s].fixingData,
             metal |-> p.metal,
             direction |-> hedge_row[hedgeId].direction]}
  /\ mutation' = [mutation EXCEPT ![s].pc = "update_execution", ![s].cur = hedgeId]
  /\ UNCHANGED <<hedge_execution, pricing_fixing, props, summary, matching,
                 open, form, existingFixings,
                 hedges, toast>>

\* UpdatedExecution with the status test written < instead of <=
UpdatedExecutionStrictStatus(openQtyRead, allocQty, price) ==
  LET newOpenQty == openQtyRead - allocQty
  IN  [open_quantity_mt |-> Some(Max(0, newOpenQty)),
       status |-> IF newOpenQty < 0 THEN "CLOSED" ELSE "PARTIALLY_CLOSED",
       closed_price |-> IF newOpenQty <= 0 THEN Some(price) ELSE Null,
       closed_at |-> IF newOpenQty <= 0 THEN Some("now") ELSE Null]

\* UpdatedExecution with the allocation added to the open quantity
UpdatedExecutionAdds(openQtyRead, allocQty, price) ==
  LET newOpenQty == openQtyRead + allocQty
  IN  [open_quantity_mt |-> Some(Max(0, newOpenQty)),
       status |-> IF newOpenQty <= 0 THEN "CLOSED" ELSE "PARTIALLY_CLOSED",
       closed_price |-> IF newOpenQty <= 0 THEN Some(price) ELSE Null,
       closed_at |-> IF newOpenQty <= 0 THEN Some("now") ELSE Null]

\* the row the update of hedge_execution writes for a hedge read with openQty
UpdatedExecution(openQtyRead, allocQty, price) ==
  LET newOpenQty == openQtyRead - allocQty
  IN  [open_quantity_mt |-> Some(Max(0, newOpenQty)),
       status |-> IF newOpenQty <= 0 THEN "CLOSED" ELSE "PARTIALLY_CLOSED",
       closed_price |-> IF newOpenQty <= 0 THEN Some(price) ELSE Null,
       closed_at |-> IF newOpenQty <= 0 THEN Some("now") ELSE Null]

\* 2. the update of that hedge's hedge_execution
UpdateHedgeExecution(s) ==
  /\ mutation[s].pc = "update_execution"
  /\ LET hedgeId == mutation[s].cur
         left == mutation[s].todo \ {hedgeId}
     IN  /\ hedge_execution' =
              [hedge_execution EXCEPT
                 ![hedgeId] = UpdatedExecution(openQty(s, hedgeId),
                                               ParseOrZero(allocations[s][hedgeId]),
                                               fixingPrice[s][1])]
         /\ IF left = {}
            THEN Succeeded(s)
            ELSE /\ mutation' = [mutation EXCEPT ![s].pc = "insert_link",
                                                 ![s].todo = left,
                                                 ![s].cur = "none"]
                 /\ UNCHANGED <<open, toast>>
  /\ UNCHANGED <<pricing_fixing, hedge_link, props, summary, matching,
                 form, existingFixings, hedges>>

\* the awaited call returns an error: mutationFn throws, onError shows the toast
MutationFails(s) ==
  /\ mutation[s].isPending
  /\ mutation' = [mutation EXCEPT ![s] = Settled]
  /\ toast' = [toast EXCEPT ![s] = "Failed to create price fixing"]
  /\ UNCHANGED <<store, props, summary, matching, open, form, existingFixings, hedges>>

(***************************************************************************)
(* Three explorations of the same handlers.  Spec: one dialog, every input *)
(* the form takes, every supabase call succeeds.  SpecFailure: one dialog, *)
(* any awaited call of the mutation may return an error.  SpecConcurrent:  *)
(* two dialogs on the same order, whose steps interleave.                  *)
(***************************************************************************)

\* what the user can type
AllocInputs == {Null, Some(-1), Some(1), Some(2)}
PriceInputs == {Null, Some(0), Some(1)}
ValidAllocInputs == {Some(1), Some(2)}
ValidPriceInputs == {Some(1)}

Next ==
  \E s \in {"s1"} :
    \/ OpenDialog(s)
    \/ CloseDialog(s)
    \/ FetchExistingFixings(s)
    \/ FetchEligibleHedges(s)
    \/ \E id \in Hedges, checked \in BOOLEAN : handleToggleHedge(s, id, checked)
    \/ \E id \in Hedges, value \in AllocInputs : handleAllocationChange(s, id, value)
    \/ \E value \in PriceInputs : setFixingPrice(s, value)
    \/ \E value \in BOOLEAN : setShowAllHedges(s, value)
    \/ handleSubmit(s)
    \/ InsertPricingFixing(s)
    \/ \E id \in Hedges : InsertHedgeLink(s, id)
    \/ UpdateHedgeExecution(s)

NextFailure ==
  \E s \in {"s1"} :
    \/ OpenDialog(s)
    \/ FetchExistingFixings(s)
    \/ FetchEligibleHedges(s)
    \/ \E id \in Hedges, checked \in BOOLEAN : handleToggleHedge(s, id, checked)
    \/ \E id \in Hedges, value \in ValidAllocInputs :
         handleAllocationChange(s, id, value)
    \/ \E value \in ValidPriceInputs : setFixingPrice(s, value)
    \/ \E value \in BOOLEAN : setShowAllHedges(s, value)
    \/ handleSubmit(s)
    \/ InsertPricingFixing(s)
    \/ \E id \in Hedges : InsertHedgeLink(s, id)
    \/ UpdateHedgeExecution(s)
    \/ MutationFails(s)

NextConcurrent ==
  \E s \in Sessions :
    \/ OpenDialog(s)
    \/ FetchExistingFixings(s)
    \/ FetchEligibleHedges(s)
    \/ \E id \in Hedges, checked \in BOOLEAN : handleToggleHedge(s, id, checked)
    \/ \E id \in Hedges, value \in ValidAllocInputs :
         handleAllocationChange(s, id, value)
    \/ \E value \in ValidPriceInputs : setFixingPrice(s, value)
    \/ handleSubmit(s)
    \/ InsertPricingFixing(s)
    \/ \E id \in Hedges : InsertHedgeLink(s, id)
    \/ UpdateHedgeExecution(s)

Spec == Init /\ [][Next]_vars
SpecFailure == Init /\ [][NextFailure]_vars
SpecConcurrent == Init /\ [][NextConcurrent]_vars

(***************************************************************************)
(* SpecEligibility: one dialog, mounted in any of the wider ways, every    *)
(* supabase call succeeds.                                                 *)
(***************************************************************************)
InitEligibility ==
  /\ InitDialogs(DOMAIN hedge_row)
  /\ props \in {[s \in Sessions |-> p] : p \in PriceFixingDialogPropsWider}
  /\ InitSummary
  /\ InitMatching
  /\ ticket = <<>>

NextEligibility ==
  \E s \in {"s1"} :
    \/ OpenDialog(s)
    \/ FetchExistingFixings(s)
    \/ FetchEligibleHedges(s)
    \/ \E id \in Hedges, checked \in BOOLEAN : handleToggleHedge(s, id, checked)
    \/ \E id \in Hedges, value \in ValidAllocInputs :
         handleAllocationChange(s, id, value)
    \/ \E value \in ValidPriceInputs : setFixingPrice(s, value)
    \/ \E value \in BOOLEAN : setShowAllHedges(s, value)
    \/ handleSubmit(s)
    \/ InsertPricingFixing(s)
    \/ \E id \in Hedges : InsertHedgeLink(s, id)
    \/ UpdateHedgeExecution(s)

SpecEligibility == InitEligibility /\ [][NextEligibility]_vars

(***************************************************************************)
(* HedgingSummarySection of order o1.  Each of its two queries is one      *)
(* step; a result replaces the cache of the query's current key.           *)
(***************************************************************************)

\* the orderId prop of the section
summaryOrderId == "o1"

\* "bl-orders-for-order".  The ids are part of the key of the second query: the
\* first result changes that key, and the query of the new key has no result yet
FetchBlOrders ==
  /\ blOrders' =
       [loaded |-> TRUE,
        data |-> {b \in BlOrders : /\ bl_order[b].order_id = summaryOrderId
                                   /\ bl_order[b].deleted_at = Null}]
  /\ linkedHedges' = IF blOrders.loaded THEN linkedHedges
                     ELSE [loaded |-> FALSE, data |-> {}]
  /\ UNCHANGED <<store, props, matching, open, form, existingFixings, hedges,
                 mutation, toast>>

\* the hedge_link rows the second query selects: link_id in [orderId, ...blIds]
linkIds == {summaryOrderId} \cup (IF blOrders.loaded THEN blOrders.data ELSE {})
LinkedExecutions(ids) ==
  {h \in Hedges : /\ \E l \in hedge_link : /\ l.link_id \in ids
                                            /\ l.hedge_execution_id = h
                  /\ hedge_row[h].deleted_at = Null}

\* "linked-hedges-aggregated": one row per execution
FetchLinkedHedges ==
  /\ linkedHedges' =
       [loaded |-> TRUE,
        data |-> {[id |-> h,
                   open_quantity_mt |-> hedge_execution[h].open_quantity_mt,
                   quantity_mt |-> hedge_row[h].quantity_mt,
                   direction |-> hedge_row[h].direction] :
                  h \in LinkedExecutions(linkIds)}]
  /\ UNCHANGED <<store, props, matching, open, form, existingFixings, hedges,
                 mutation, toast, blOrders>>

Abs(x) == IF x < 0 THEN 0 - x ELSE x

\* [value, label, mt] of a net position in MT: the label and the magnitude it shows
Labelled(net) ==
  IF Abs(net) * 100 < 1 THEN [value |-> 0, label |-> "Flat", mt |-> 0]
  ELSE IF net > 0 THEN [value |-> net, label |-> "Long", mt |-> net]
  ELSE [value |-> net, label |-> "Short", mt |-> Abs(net)]

\* netExposure: Buy = positive, Sell = negative, over the cached rows
netExposure ==
  IF ~linkedHedges.loaded \/ linkedHedges.data = {}
  THEN [value |-> 0, label |-> "Flat", mt |-> 0]
  ELSE Labelled(SumOver(linkedHedges.data,
                        [h \in linkedHedges.data |->
                           LET qty == IF h.open_quantity_mt = Null THEN h.quantity_mt
                                      ELSE h.open_quantity_mt[1]
                           IN  IF h.direction = "Buy" THEN qty ELSE 0 - qty]))

(***************************************************************************)
(* SpecOrderPage: the page of order o1, showing its hedging summary and    *)
(* one price-fixing dialog for the order or for its BL order 1.            *)
(***************************************************************************)
InitOrderPage ==
  /\ InitDialogs(DOMAIN hedge_row)
  /\ props \in {[s \in Sessions |-> p] :
                  p \in {q \in PriceFixingDialogPropsWider : q.orderId = "o1"}}
  /\ InitSummary
  /\ InitMatching
  /\ ticket = <<>>

NextOrderPage ==
  \/ FetchBlOrders
  \/ FetchLinkedHedges
  \/ \E s \in {"s1"} :
       \/ OpenDialog(s)
       \/ FetchExistingFixings(s)
       \/ FetchEligibleHedges(s)
       \/ \E id \in Hedges, checked \in BOOLEAN : handleToggleHedge(s, id, checked)
       \/ \E id \in Hedges, value \in ValidAllocInputs :
            handleAllocationChange(s, id, value)
       \/ \E value \in ValidPriceInputs : setFixingPrice(s, value)
       \/ handleSubmit(s)
       \/ InsertPricingFixing(s)
       \/ \E id \in Hedges : InsertHedgeLink(s, id)
       \/ UpdateHedgeExecution(s)

SpecOrderPage == InitOrderPage /\ [][NextOrderPage]_vars

(***************************************************************************)
(* OptimizeMatching (src/GeneratedDocumentsList.tsx).  A JavaScript number *)
(* that may be a fraction is [n, d] in lowest terms with d > 0; d = 0 is   *)
(* what a division by zero gives: NaN (n = 0), Infinity (n = 1) or         *)
(* -Infinity (n = -1).  Rounding is left out.                              *)
(***************************************************************************)

RECURSIVE Gcd(_, _)
Gcd(a, b) == IF b = 0 THEN a ELSE Gcd(b, a % b)

Sign(x) == IF x > 0 THEN 1 ELSE IF x < 0 THEN -1 ELSE 0

Frac(n, d) ==
  IF d = 0 THEN [n |-> Sign(n), d |-> 0]
  ELSE LET g == Gcd(Abs(n), Abs(d))
       IN  [n |-> Sign(d) * (n \div g), d |-> Abs(d) \div g]

Num(i) == [n |-> i, d |-> 1]
IsNaN(a) == a.n = 0 /\ a.d = 0
IsFinite(a) == a.d # 0
Times(a, b) == Frac(a.n * b.n, a.d * b.d)
Plus(a, b) == Frac(a.n * b.d + b.n * a.d, a.d * b.d)
Minus(a, b) == Frac(a.n * b.d - b.n * a.d, a.d * b.d)
Over(a, b) == Frac(a.n * b.d, a.d * b.n)
\* a < b and a >= b; every comparison with NaN is false
Less(a, b) == ~IsNaN(a) /\ ~IsNaN(b) /\ a.n * b.d < b.n * a.d
GreaterEq(a, b) == ~IsNaN(a) /\ ~IsNaN(b) /\ a.n * b.d >= b.n * a.d

\* JSON.stringify of a number in the body of an insert: NaN and Infinity are null
ToJson(a) == IF IsFinite(a) THEN Some(a) ELSE Null

\* a nullable numeric column is truthy when it is neither null nor 0
Truthy(col) == col # Null /\ col[1].n # 0

\* the most tickets the ticket table holds
MaxTickets == 3

\* the rows a ticket can be (id apart): the columns handleOptimize reads
TicketRow(type, commodity, status, pricing, signed, lme, payable, premium, qty) ==
  [type |-> type, commodity_type |-> commodity, status |-> status,
   pricing_type |-> pricing, signed_price |-> signed, lme_price |-> lme,
   payable_percent |-> payable, premium_discount |-> premium, quantity |-> qty]

FixedTicket(type, price, qty) ==
  TicketRow(type, "Copper", "Approved", "Fixed", price, Null, Null, Null, qty)

TicketKinds ==
  {FixedTicket("Sell", Some(Num(3)), Some(2)),
   FixedTicket("Sell", Some(Num(2)), Some(2)),
   TicketRow("Sell", "Copper", "Approved", "Index", Null, Some(Num(2)), Null,
             Some(Num(1)), Some(1)),
   FixedTicket("Sell", Some(Num(4)), Some(0)),
   TicketRow("Sell", "Zinc", "Approved", "Fixed", Some(Num(3)), Null, Null, Null,
             Some(2)),
   FixedTicket("Buy", Some(Num(1)), Some(3)),
   TicketRow("Buy", "Copper", "Approved", "Formula", Null, Some(Num(2)),
             Some(Frac(1, 2)), Null, Some(1)),
   FixedTicket("Buy", Null, Some(2)),
   FixedTicket("Buy", Some(Num(3)), Some(2)),
   TicketRow("Buy", "Copper", "Approved", "Index", Null, Some(Num(1)), Null,
             Some(Num(-2)), Some(2)),
   TicketRow("Buy", "Copper", "Draft", "Fixed", Some(Num(1)), Null, Null, Null,
             Some(3))}

\* the ticket tables: the rows in arrival order, a row's id is its position
RECURSIVE TablesOf(_)
TablesOf(len) ==
  IF len = 0 THEN {<<>>}
  ELSE {Append(q, [id |-> len] @@ row) : q \in TablesOf(len - 1), row \in TicketKinds}

TicketTables == UNION {TablesOf(len) : len \in 0..MaxTickets}

calculateTicketPrice(t) ==
  IF t.pricing_type = "Fixed"
  THEN IF Truthy(t.signed_price) THEN t.signed_price[1] ELSE Num(0)
  ELSE IF t.pricing_type = "Formula"
  THEN IF Truthy(t.lme_price) /\ Truthy(t.payable_percent)
       THEN Times(t.lme_price[1], t.payable_percent[1]) ELSE Num(0)
  ELSE IF t.pricing_type = "Index"
  THEN IF Truthy(t.lme_price) /\ Truthy(t.premium_discount)
       THEN Plus(t.lme_price[1], t.premium_discount[1]) ELSE Num(0)
  ELSE Num(0)

\* supabase.from("ticket").select("*").eq("type", ..).eq("status", "Approved")
\*   .eq("commodity_type", ..)
ApprovedTickets(type, commodity) ==
  SelectSeq(ticket, LAMBDA t : /\ t.type = type
                               /\ t.status = "Approved"
                               /\ t.commodity_type = commodity)

\* the comparator puts x before e: lower price first, or higher price first
Before(x, e, highestFirst) ==
  IF highestFirst THEN Less(calculateTicketPrice(e), calculateTicketPrice(x))
  ELSE Less(calculateTicketPrice(x), calculateTicketPrice(e))

\* a sort that is not stable: the last element goes in front of the elements of
\* its own price too
RECURSIVE SortByPriceTiesReversed(_, _)
SortByPriceTiesReversed(q, highestFirst) ==
  IF q = <<>> THEN <<>>
  ELSE LET front == SortByPriceTiesReversed(SubSeq(q, 1, Len(q) - 1), highestFirst)
           x == q[Len(q)]
           k == Cardinality({i \in 1..Len(front) : Before(front[i], x, highestFirst)})
       IN  SubSeq(front, 1, k) \o <<x>> \o SubSeq(front, k + 1, Len(front))

\* Array.prototype.sort, which is stable: the last element goes in front of the
\* first element the comparator puts it before
RECURSIVE SortByPrice(_, _)
SortByPrice(q, highestFirst) ==
  IF q = <<>> THEN <<>>
  ELSE LET front == SortByPrice(SubSeq(q, 1, Len(q) - 1), highestFirst)
           x == q[Len(q)]
           k == Cardinality({i \in 1..Len(front) : ~Before(x, front[i], highestFirst)})
       IN  SubSeq(front, 1, k) \o <<x>> \o SubSeq(front, k + 1, Len(front))

\* ticket.quantity || 0
QuantityOrZero(t) == IF t.quantity = Null THEN 0 ELSE t.quantity[1]

\* the greedy loop over the sorted tickets: the entries pushed
RECURSIVE Select(_, _)
Select(sorted, remainingQty) ==
  IF sorted = <<>> \/ remainingQty <= 0 THEN <<>>
  ELSE LET allocQty == Min(remainingQty, QuantityOrZero(Head(sorted)))
       IN  <<[t |-> Head(sorted), allocQty |-> allocQty]>>
           \o Select(Tail(sorted), remainingQty - allocQty)

RECURSIVE AllocatedQty(_)
AllocatedQty(selected) ==
  IF selected = <<>> THEN 0 ELSE Head(selected).allocQty + AllocatedQty(Tail(selected))

\* selected.reduce((sum, t) => sum + calculateTicketPrice(t) * t.allocQty, 0)
RECURSIVE PricedSum(_)
PricedSum(selected) ==
  IF selected = <<>> THEN Num(0)
  ELSE Plus(PricedSum(SubSeq(selected, 1, Len(selected) - 1)),
            Times(calculateTicketPrice(selected[Len(selected)].t),
                  Num(selected[Len(selected)].allocQty)))

RECURSIVE IdsOf(_)
IdsOf(selected) ==
  IF selected = <<>> THEN <<>> ELSE <<Head(selected).t.id>> \o IdsOf(Tail(selected))

\* what handleOptimize computes from the fetched tickets, for the commodity c and
\* the target quantity q of the call
sortedBuyTickets(c) == SortByPrice(ApprovedTickets("Buy", c), FALSE)
sortedSellTickets(c) == SortByPrice(ApprovedTickets("Sell", c), TRUE)

\* selectedSells taken from the sell tickets in arrival order
selectedSellsUnsorted(c, q) == Select(ApprovedTickets("Sell", c), q)

selectedSells(c, q) == Select(sortedSellTickets(c), q)
selectedBuys(c, q) == Select(sortedBuyTickets(c), q)
avgBuyPrice(c, q) == Over(PricedSum(selectedBuys(c, q)), Num(q))
avgSellPrice(c, q) == Over(PricedSum(selectedSells(c, q)), Num(q))

\* optimizeRejection without the test of the buy side's remaining quantity
optimizeRejectionSellOnly(c, q) ==
  IF ApprovedTickets("Buy", c) = <<>> \/ ApprovedTickets("Sell", c) = <<>>
  THEN "No matching tickets found with the specified criteria"
  ELSE IF q - AllocatedQty(selectedSells(c, q)) > 0 THEN "Not enough sell tickets"
  ELSE IF GreaterEq(avgBuyPrice(c, q), avgSellPrice(c, q))
  THEN "Cannot create order: Buy price exceeds sell price"
  ELSE "none"

\* the toast handleOptimize returns with after the fetch, "none" when it goes on
\* to mutate()
optimizeRejection(c, q) ==
  IF ApprovedTickets("Buy", c) = <<>> \/ ApprovedTickets("Sell", c) = <<>>
  THEN "No matching tickets found with the specified criteria"
  ELSE IF q - AllocatedQty(selectedSells(c, q)) > 0 THEN "Not enough sell tickets"
  ELSE IF q - AllocatedQty(selectedBuys(c, q)) > 0 THEN "Not enough buy tickets"
  ELSE IF GreaterEq(avgBuyPrice(c, q), avgSellPrice(c, q))
  THEN "Cannot create order: Buy price exceeds sell price"
  ELSE "none"

\* the generated ids: String(Math.floor(10000 + Math.random() * 90000))
OrderIds == {"10000", "99999"}

orderData(c, q, id) ==
  [id |-> id,
   buyer |-> IdsOf(selectedBuys(c, q)),
   seller |-> IdsOf(selectedSells(c, q)),
   commodity_type |-> c,
   allocated_quantity_mt |-> q,
   buy_price |-> avgBuyPrice(c, q),
   sell_price |-> avgSellPrice(c, q),
   margin |-> Over(Minus(avgSellPrice(c, q), avgBuyPrice(c, q)), avgBuyPrice(c, q)),
   status |-> "Allocated"]

\* the row the insert stores: the JSON body of the request
Inserted(data) ==
  [data EXCEPT !.buy_price = ToJson(@), !.sell_price = ToJson(@),
               !.margin = ToJson(@)]

(***************************************************************************)
(* The handlers of OptimizeMatching.  handleOptimize awaits the two ticket *)
(* queries: the call up to the await is one step, the rest of it another.  *)
(* One call runs at a time.                                                *)
(***************************************************************************)

Resting == mounted /\ optimizing.pc = "idle" /\ ~createOrderMutation.isPending
dialogs == <<props, open, form, existingFixings, hedges, mutation, toast>>
\* the optimizer's handlers price tickets in locals only
priced == <<calculatedPrice>>

setCommodityType(value) ==
  /\ Resting
  /\ value # commodityType
  /\ commodityType' = value
  /\ toastOptimize' = "none"
  /\ UNCHANGED <<store, dialogs, summary, priced, ticket, order, mounted, quantity,
                 optimizing, createOrderMutation>>

setQuantity(value) ==
  /\ Resting
  /\ value # quantity
  /\ quantity' = value
  /\ toastOptimize' = "none"
  /\ UNCHANGED <<store, dialogs, summary, priced, ticket, order, mounted, commodityType,
                 optimizing, createOrderMutation>>

\* Back / Cancel
onBack ==
  /\ Resting
  /\ mounted' = FALSE
  /\ toastOptimize' = "none"
  /\ UNCHANGED <<store, dialogs, summary, priced, ticket, order, commodityType,
                 quantity, optimizing, createOrderMutation>>

\* handleOptimize up to the await of the two ticket queries
handleOptimize ==
  /\ Resting
  /\ IF commodityType = "" \/ quantity = Null
     THEN /\ toastOptimize' = "Please fill in commodity type and quantity"
          /\ UNCHANGED optimizing
     ELSE /\ toastOptimize' = "none"
          /\ optimizing' = [pc |-> "fetching", commodityType |-> commodityType,
                            targetQty |-> quantity[1]]
  /\ UNCHANGED <<store, dialogs, summary, priced, ticket, order, mounted, commodityType,
                 quantity, createOrderMutation>>

\* one of the two queries returned an error
TicketsFetchFails ==
  /\ optimizing.pc = "fetching"
  /\ optimizing' = Idle
  /\ toastOptimize' = "Failed to fetch tickets"
  /\ UNCHANGED <<store, dialogs, summary, priced, ticket, order, mounted, commodityType,
                 quantity, createOrderMutation>>

\* handleOptimize after the await: sort, select, average, mutate(orderData)
TicketsFetched(orderId) ==
  /\ optimizing.pc = "fetching"
  /\ optimizing' = Idle
  /\ LET c == optimizing.commodityType
         q == optimizing.targetQty
     IN  /\ toastOptimize' = optimizeRejection(c, q)
         /\ createOrderMutation' =
              IF optimizeRejection(c, q) = "none"
              THEN [isPending |-> TRUE, orderData |-> Some(orderData(c, q, orderId))]
              ELSE createOrderMutation
  /\ UNCHANGED <<store, dialogs, summary, priced, ticket, order, mounted, commodityType,
                 quantity>>

\* InsertOrder with the tickets of the order marked Matched in the ticket table
InsertOrderMarksTickets ==
  /\ createOrderMutation.isPending
  /\ order' = Append(order, Inserted(createOrderMutation.orderData[1]))
  /\ ticket' =
       LET d == createOrderMutation.orderData[1]
           ids == {d.buyer[i] : i \in 1..Len(d.buyer)}
                    \cup {d.seller[i] : i \in 1..Len(d.seller)}
       IN  [i \in DOMAIN ticket |->
              IF i \in ids THEN [ticket[i] EXCEPT !.status = "Matched"] ELSE ticket[i]]
  /\ createOrderMutation' = NoMutation
  /\ toastOptimize' = "Optimized orders created successfully"
  /\ mounted' = FALSE
  /\ UNCHANGED <<store, dialogs, summary, priced, commodityType, quantity,
                 optimizing>>

\* createOrderMutation.mutationFn: the insert; onSuccess closes the dialog
InsertOrder ==
  /\ createOrderMutation.isPending
  /\ order' = Append(order, Inserted(createOrderMutation.orderData[1]))
  /\ createOrderMutation' = NoMutation
  /\ toastOptimize' = "Optimized orders created successfully"
  /\ mounted' = FALSE
  /\ UNCHANGED <<store, dialogs, summary, priced, ticket, commodityType, quantity,
                 optimizing>>

\* the insert returned an error: onError
InsertOrderFails ==
  /\ createOrderMutation.isPending
  /\ createOrderMutation' = NoMutation
  /\ toastOptimize' = "Failed to create orders"
  /\ UNCHANGED <<store, dialogs, summary, priced, ticket, order, mounted, commodityType,
                 quantity, optimizing>>

(***************************************************************************)
(* SpecOptimize: OptimizeMatching over every ticket table of at most       *)
(* MaxTickets rows.                                                        *)
(***************************************************************************)
CommodityInputs == {"", "Copper"}
QuantityInputs == {Null, Some(-1), Some(0), Some(2), Some(3)}

InitOptimize ==
  /\ InitDialogs({"h1", "h2", "h3"})
  /\ props \in {[s \in Sessions |-> p] : p \in PriceFixingDialogProps}
  /\ InitSummary
  /\ InitMatching
  /\ ticket \in TicketTables

NextOptimize ==
  \/ \E value \in CommodityInputs : setCommodityType(value)
  \/ \E value \in QuantityInputs : setQuantity(value)
  \/ onBack
  \/ handleOptimize
  \/ TicketsFetchFails
  \/ \E orderId \in OrderIds : TicketsFetched(orderId)
  \/ InsertOrder
  \/ InsertOrderFails

SpecOptimize == InitOptimize /\ [][NextOptimize]_vars

(***************************************************************************)
(* SpecPrice: calculateTicketPrice applied to one ticket, over the pricing *)
(* modes and over null, zero and signed values of the columns it reads.    *)
(***************************************************************************)
PricingTypes == {"Fixed", "Formula", "Index", "Other"}
SignedPrices == {Null, Some(Num(-1)), Some(Num(0)), Some(Num(2))}
LmePrices == {Null, Some(Num(0)), Some(Num(2)), Some(Num(100))}
PayablePercents == {Null, Some(Num(0)), Some(Frac(57, 100)), Some(Frac(3, 2)),
                    Some(Num(57))}
PremiumDiscounts == {Null, Some(Num(-3)), Some(Num(0)), Some(Num(1))}

PricedTickets ==
  {[id |-> 1] @@ TicketRow("Buy", "Copper", "Approved", pricing, signed, lme,
                           payable, premium, Some(1)) :
     pricing \in PricingTypes, signed \in SignedPrices, lme \in LmePrices,
     payable \in PayablePercents, premium \in PremiumDiscounts}

InitPrice ==
  /\ InitDialogs({"h1", "h2", "h3"})
  /\ props \in {[s \in Sessions |-> p] : p \in PriceFixingDialogProps}
  /\ InitSummary
  /\ InitMatching
  /\ ticket \in {<<t>> : t \in PricedTickets}

\* t => ({ ...t, calculatedPrice: calculateTicketPrice(t) })
PriceTicket ==
  /\ calculatedPrice = Null
  /\ calculatedPrice' = Some(calculateTicketPrice(ticket[1]))
  /\ UNCHANGED <<store, dialogs, summary, ticket, order, mounted, commodityType,
                 quantity, optimizing, createOrderMutation, toastOptimize>>

NextPrice == PriceTicket

SpecPrice == InitPrice /\ [][NextPrice]_vars

(***************************************************************************)
(* Quantities of the store the claims speak of.                            *)
(***************************************************************************)

\* an execution's open quantity: open_quantity_mt ?? quantity_mt
OpenQuantity(h) ==
  IF hedge_execution[h].open_quantity_mt = Null THEN hedge_row[h].quantity_mt
  ELSE hedge_execution[h].open_quantity_mt[1]

LinksOf(h) == {l \in hedge_link : l.hedge_execution_id = h}
LinksOfFixing(id) == {l \in hedge_link : l.fixing_id = id}
Allocated(links) == SumOver(links, [l \in links |-> l.allocated_quantity_mt])

\* the fixed quantity of a dialog's physical reference, as the store has it
FixedQuantity(p) == SumSeq(QuantitiesOf(FixingsOfReference(p)))

FixingRows == {pricing_fixing[i] : i \in 1..Len(pricing_fixing)}

\* a step in which the dialog s calls mutate()
Mutates(s) == ~mutation[s].isPending /\ mutation'[s].isPending

(***************************************************************************)
(* C1.  For every hedge execution, the allocated quantities of the         *)
(* hedge_link rows that reference it sum to at most its trade quantity,    *)
(* after any interleaving of price-fixing commits.                         *)
(***************************************************************************)
C1_LinksWithinTradeQuantity ==
  \A h \in Hedges : Allocated(LinksOf(h)) <= hedge_row[h].quantity_mt

(***************************************************************************)
(* C2.  For every physical reference, the quantities of its non-deleted    *)
(* pricing_fixing rows sum to at most its physical quantity.               *)
(***************************************************************************)
C2_FixingsWithinPhysicalQuantity ==
  \A s \in Sessions : FixedQuantity(props[s]) <= props[s].physicalQuantity

(***************************************************************************)
(* C3.  When a commit fails after its pricing_fixing insert, the rows it   *)
(* wrote are gone when it returns: no pricing_fixing row and no hedge_link *)
(* row of the failed commit is left in the store.                          *)
(***************************************************************************)
C3_FailedCommitLeavesNoRows ==
  [][\A s \in Sessions :
       (mutation[s].isPending /\ mutation[s].fixingData # 0
          /\ toast'[s] = "Failed to create price fixing" /\ ~mutation'[s].isPending)
       => /\ \A f \in FixingRows' : f.id # mutation[s].fixingData
          /\ LinksOfFixing(mutation[s].fixingData)' = {}]_vars

(***************************************************************************)
(* C4.  In every state a reader can observe, each pricing_fixing row has   *)
(* all its hedge_link rows (they add up to its quantity), and each         *)
(* hedge_link row's execution has had the link's quantity taken off its    *)
(* open quantity.                                                          *)
(***************************************************************************)
C4_NoPartialCommitObservable ==
  /\ \A f \in FixingRows : Allocated(LinksOfFixing(f.id)) = f.quantity_mt
  /\ \A l \in hedge_link :
       OpenQuantity(l.hedge_execution_id)
         <= hedge_row[l.hedge_execution_id].quantity_mt - l.allocated_quantity_mt

(***************************************************************************)
(* C5.  A commit writes only when what the dialog read is still what the   *)
(* store holds: the fixed quantity of the reference when it inserts the    *)
(* pricing_fixing row, the open quantity of the execution when it updates  *)
(* the execution.  Otherwise it aborts and writes nothing.                 *)
(***************************************************************************)
C5_StaleCommitWritesNothing ==
  [][\A s \in Sessions :
       /\ (mutation[s].pc = "insert_fixing" /\ mutation'[s].pc # "insert_fixing"
            /\ pricing_fixing' # pricing_fixing)
          => /\ existingFixings[s].loaded
                  => alreadyFixedQty(s) = FixedQuantity(props[s])
             /\ \A h \in mutation[s].todo : openQty(s, h) = OpenQuantity(h)
       /\ (mutation[s].pc = "update_execution" /\ mutation'[s].pc # "update_execution"
            /\ hedge_execution' # hedge_execution)
          => openQty(s, mutation[s].cur) = OpenQuantity(mutation[s].cur)]_vars

(***************************************************************************)
(* C6.  In every reachable state, an execution is CLOSED exactly when its  *)
(* open quantity is 0, PARTIALLY_CLOSED exactly when its open quantity is  *)
(* above 0 and below its trade quantity, and OPEN exactly when its open    *)
(* quantity is its trade quantity.                                         *)
(***************************************************************************)
C6_StatusFollowsOpenQuantity ==
  \A h \in Hedges :
    LET o == OpenQuantity(h)
        q == hedge_row[h].quantity_mt
        st == hedge_execution[h].status
    IN  /\ st = "CLOSED" <=> o = 0
        /\ st = "PARTIALLY_CLOSED" <=> (0 < o /\ o < q)
        /\ st = "OPEN" <=> o = q

\* an execution that one commit closed has been partially closed by another, from
\* a read that preceded the first
C6_Witness ==
  \E h \in Hedges :
    /\ hedge_execution[h].status = "PARTIALLY_CLOSED"
    /\ \E l \in LinksOf(h) : l.allocated_quantity_mt = hedge_row[h].quantity_mt
    /\ \A s \in Sessions : ~mutation[s].isPending

(***************************************************************************)
(* C7.  In every reachable state, every execution's open quantity is at    *)
(* least 0 and at most its trade quantity.                                 *)
(***************************************************************************)
C7_OpenQuantityInRange ==
  \A h \in Hedges :
    0 <= OpenQuantity(h) /\ OpenQuantity(h) <= hedge_row[h].quantity_mt

\* two commits have taken more than the trade quantity from one execution
C7_Witness ==
  \E h \in Hedges :
    /\ Allocated(LinksOf(h)) > hedge_row[h].quantity_mt
    /\ hedge_execution[h].open_quantity_mt # Null
    /\ \A s \in Sessions : ~mutation[s].isPending

(***************************************************************************)
(* C8.  The update of a commit that allocates a, 0 < a <= open, to an      *)
(* execution whose open quantity is open leaves it with open - a: CLOSED   *)
(* with closed_price the fixing price and closed_at set when that is 0,    *)
(* PARTIALLY_CLOSED with closed_price and closed_at unset otherwise.       *)
(***************************************************************************)
C8_UpdateTakesAllocationOffOpen ==
  [][\A s \in Sessions :
       (mutation[s].pc = "update_execution" /\ mutation'[s] # mutation[s])
       => LET h == mutation[s].cur
              a == ParseOrZero(allocations[s][h])
              o == OpenQuantity(h)
              row == hedge_execution'[h]
          IN  (0 < a /\ a <= o)
              => /\ row.open_quantity_mt = Some(o - a)
                 /\ IF o - a = 0
                    THEN /\ row.status = "CLOSED"
                         /\ row.closed_price = fixingPrice[s]
                         /\ row.closed_at # Null
                    ELSE /\ row.status = "PARTIALLY_CLOSED"
                         /\ row.closed_price = Null
                         /\ row.closed_at = Null]_vars

(***************************************************************************)
(* C9.  A submit goes on to commit only if the total requested allocation  *)
(* is at most the available unfixed quantity and every selected hedge's    *)
(* requested allocation is at most that hedge's open quantity; any other   *)
(* submit is rejected and writes nothing.                                  *)
(***************************************************************************)
C9_OverAllocationRejected ==
  [][\A s \in Sessions :
       Mutates(s)
       => /\ totalAllocation(s) <= availableUnfixedQty(s)
          /\ \A h \in selectedHedges[s] :
               ParseOrZero(allocations[s][h]) <= OpenQuantity(h)]_vars

(***************************************************************************)
(* C10.  A submit with no fixing price, or with a fixing price <= 0, is    *)
(* rejected before any write: the step that rejects it leaves the three    *)
(* tables as they are and starts no mutation, and no dialog calls mutate() *)
(* with such a price.                                                      *)
(***************************************************************************)
C10_InvalidPriceRejected ==
  [][\A s \in Sessions :
       /\ (fixingPrice[s] = Null \/ fixingPrice[s][1] <= 0) => ~Mutates(s)
       /\ (toast'[s] = "Please enter a valid fixing price" /\ toast'[s] # toast[s])
          => (UNCHANGED store /\ ~mutation'[s].isPending)]_vars

\* a submit with a valid allocation and a fixing price of 0 has been rejected
C10_Witness ==
  \E s \in Sessions :
    /\ toast[s] = "Please enter a valid fixing price"
    /\ fixingPrice[s] = Some(0)
    /\ hasValidAllocation(s) /\ ~exceedsPhysical(s) /\ ~hasAllocationErrors(s)
    /\ pricing_fixing = <<>> /\ hedge_link = {}

\* the pricing_fixing rows whose commit has returned: no running mutationFn holds
\* the row as its fixingData
CommittedFixings ==
  {f \in FixingRows :
     \A s \in Sessions : ~(mutation[s].isPending /\ mutation[s].fixingData = f.id)}

(***************************************************************************)
(* C11.  Once a commit has returned, the quantity_mt of the pricing_fixing *)
(* row it created is the sum of allocated_quantity_mt over the hedge_link  *)
(* rows carrying its fixing_id, whatever the dialog actions (select,       *)
(* deselect, edit an allocation, toggle "show all hedges") before the      *)
(* submit.                                                                 *)
(***************************************************************************)
C11_FixingQuantityIsSumOfLinks ==
  \A f \in CommittedFixings : f.quantity_mt = Allocated(LinksOfFixing(f.id))

(***************************************************************************)
(* C19.  A commit never starts while some selected hedge's requested       *)
(* allocation is empty, zero or negative, even when the total over the     *)
(* selected hedges is positive: such a submit is rejected.                 *)
(***************************************************************************)
C19_NonPositiveAllocationRejected ==
  [][\A s \in Sessions :
       Mutates(s)
       => \A h \in selectedHedges[s] : ParseOrZero(allocations[s][h]) > 0]_vars

\* the rows a dialog offers: the result of its "eligible-hedges" query
Offered(s) == IF hedges[s].loaded THEN hedges[s].data ELSE {}

(***************************************************************************)
(* C16.  The executions a dialog offers all have the direction opposite to *)
(* the exposure's side: side "sell" yields only Buy executions and side    *)
(* "buy" yields only Sell executions.                                      *)
(***************************************************************************)
C16_OfferedDirectionOppositeToSide ==
  \A s \in Sessions :
    \A r \in Offered(s) :
      /\ props[s].side = "sell" => hedge_row[r.id].direction = "Buy"
      /\ props[s].side = "buy" => hedge_row[r.id].direction = "Sell"

\* a buy-side dialog offers an execution
C16_Witness ==
  \E s \in Sessions : props[s].side = "buy" /\ Offered(s) # {}

\* the order a dialog's physical reference belongs to: the order itself, or the
\* parent order of the BL order
ReferenceOrder(p) ==
  IF p.level = "ORDER" THEN p.orderId ELSE bl_order[p.blOrderId].order_id

(***************************************************************************)
(* C17.  Every execution a dialog offers is non-deleted, was OPEN or       *)
(* PARTIALLY_CLOSED when the query read it, has the exposure's commodity   *)
(* and, unless "show all hedges" is on, was requested for the dialog's     *)
(* physical reference: for the order itself at level ORDER, for the parent *)
(* order of the BL order at level BL_ORDER.                                *)
(***************************************************************************)
C17_OfferedAreEligibleAndScoped ==
  \A s \in Sessions :
    \A r \in Offered(s) :
      /\ hedge_row[r.id].deleted_at = Null
      /\ r.status \in {"OPEN", "PARTIALLY_CLOSED"}
      /\ hedge_row[r.id].metal = props[s].metal
      /\ ~showAllHedges[s]
           => hedge_row[r.id].request_order_id = ReferenceOrder(props[s])

\* the executions linked to order o1 or to one of its non-deleted BL orders
ExecutionsOfOrder ==
  {h \in Hedges :
     /\ hedge_row[h].deleted_at = Null
     /\ \E l \in LinksOf(h) :
          \/ l.link_level = "Order" /\ l.link_id = summaryOrderId
          \/ /\ l.link_level = "Bl_order"
             /\ bl_order[l.link_id].order_id = summaryOrderId
             /\ bl_order[l.link_id].deleted_at = Null}

\* the net position of order o1 as the store has it
NetOfOrder ==
  SumOver(ExecutionsOfOrder,
          [h \in Hedges |-> IF hedge_row[h].direction = "Buy" THEN OpenQuantity(h)
                            ELSE 0 - OpenQuantity(h)])

(***************************************************************************)
(* C18.  Each read of the section's linked executions gives a net exposure *)
(* that is the sum, over the distinct non-deleted executions linked to the *)
(* order or to any of its non-deleted BL orders, of +open quantity for Buy *)
(* and -open quantity otherwise, taken from the open quantities of the     *)
(* store at that read; the label is Flat when |net| < 0.01, Long when net  *)
(* is positive and Short when it is negative.                              *)
(***************************************************************************)
C18_NetExposureIsSumOfOpenQuantities ==
  [][(linkedHedges' # linkedHedges /\ linkedHedges'.loaded)
       => /\ netExposure'.value = NetOfOrder'
          /\ netExposure'.label =
               (IF NetOfOrder' = 0 THEN "Flat"
                ELSE IF NetOfOrder' > 0 THEN "Long" ELSE "Short")]_vars

(***************************************************************************)
(* The optimizer's claims are about one call of handleOptimize: c and q    *)
(* are the commodity and the target quantity the call runs with.           *)
(***************************************************************************)

\* the step in which a call gets its tickets and runs to its end
Optimizes ==
  /\ optimizing.pc = "fetching" /\ optimizing'.pc = "idle"
  /\ toastOptimize' # "Failed to fetch tickets"

\* the step in which a call goes on to createOrderMutation.mutate(orderData)
CreatesOrder == ~createOrderMutation.isPending /\ createOrderMutation'.isPending

RECURSIVE TotalQuantity(_)
TotalQuantity(tickets) ==
  IF tickets = <<>> THEN 0
  ELSE QuantityOrZero(Head(tickets)) + TotalQuantity(Tail(tickets))

OrderRows == {order[i] : i \in 1..Len(order)}

(***************************************************************************)
(* C12.  When the Approved sell tickets and the Approved buy tickets of    *)
(* the commodity each hold at least the target Q > 0, the order a call     *)
(* creates has allocated_quantity_mt = Q, the allocations of each side sum *)
(* to exactly Q, and the order's margin is a number above 0.               *)
(***************************************************************************)
C12_OrderCoversTargetWithPositiveMargin ==
  [][CreatesOrder
       => LET c == optimizing.commodityType
              q == optimizing.targetQty
              row == Inserted(createOrderMutation'.orderData[1])
          IN  (/\ q > 0
               /\ TotalQuantity(ApprovedTickets("Sell", c)) >= q
               /\ TotalQuantity(ApprovedTickets("Buy", c)) >= q)
              => /\ row.allocated_quantity_mt = q
                 /\ AllocatedQty(selectedSells(c, q)) = q
                 /\ AllocatedQty(selectedBuys(c, q)) = q
                 /\ row.margin # Null
                 /\ row.margin[1].n > 0]_vars

LiquidityErrors ==
  {"Not enough sell tickets", "Not enough buy tickets",
   "No matching tickets found with the specified criteria"}

(***************************************************************************)
(* C13.  When the Approved sell tickets of the commodity hold less than    *)
(* the target Q, or the Approved buy tickets do, the call ends with a      *)
(* liquidity error (not enough sell tickets, not enough buy tickets, or no *)
(* matching tickets when a side is empty), starts no insert, and leaves    *)
(* the order table and every ticket as they are.                           *)
(***************************************************************************)
C13_ShortPoolIsLiquidityError ==
  [][Optimizes
       => LET c == optimizing.commodityType
              q == optimizing.targetQty
          IN  (\/ TotalQuantity(ApprovedTickets("Sell", c)) < q
               \/ TotalQuantity(ApprovedTickets("Buy", c)) < q)
              => /\ toastOptimize' \in LiquidityErrors
                 /\ ~createOrderMutation'.isPending
                 /\ order' = order
                 /\ ticket' = ticket]_vars

\* a call has failed on the buy side after the sell side covered the target
C13_Witness ==
  /\ toastOptimize = "Not enough buy tickets"
  /\ quantity # Null
  /\ TotalQuantity(ApprovedTickets("Sell", commodityType)) >= quantity[1]
  /\ TotalQuantity(ApprovedTickets("Buy", commodityType)) < quantity[1]
  /\ order = <<>>

(***************************************************************************)
(* C14.  Every order row inserted has a sell_price above its buy_price: no *)
(* order is created when the average buy price is not below the average    *)
(* sell price.                                                             *)
(***************************************************************************)
C14_InsertedOrderSellsAboveBuy ==
  \A row \in OrderRows :
    /\ row.buy_price # Null
    /\ row.sell_price # Null
    /\ Less(row.buy_price[1], row.sell_price[1])

(***************************************************************************)
(* C15.  A call with no commodity, or with a target quantity <= 0, is      *)
(* rejected before any ticket is fetched: the call never reaches the       *)
(* ticket queries.                                                         *)
(***************************************************************************)
C15_InvalidInputRejectedBeforeFetch ==
  [][(optimizing.pc = "idle" /\ optimizing'.pc = "fetching")
       => /\ commodityType # ""
          /\ quantity # Null
          /\ quantity[1] > 0]_vars

\* the tickets of a side that a selection left out
Unselected(tickets, selected) ==
  {tickets[i] : i \in 1..Len(tickets)} \ {selected[i].t : i \in 1..Len(selected)}

\* a selection that reaches q takes the tickets best price first, takes each but
\* the last whole and takes from the last what is still needed
GreedyPrefix(tickets, selected, q, highestFirst) ==
  /\ \A i, j \in 1..Len(selected) :
       i < j => ~Before(selected[j].t, selected[i].t, highestFirst)
  /\ \A i \in 1..Len(selected) :
       \A u \in Unselected(tickets, selected) :
         ~Before(u, selected[i].t, highestFirst)
  /\ \A i \in 1..Len(selected) - 1 :
       selected[i].allocQty = QuantityOrZero(selected[i].t)
  /\ selected # <<>>
       => LET last == selected[Len(selected)]
          IN  /\ last.allocQty
                   = q - AllocatedQty(SubSeq(selected, 1, Len(selected) - 1))
              /\ last.allocQty <= QuantityOrZero(last.t)

(***************************************************************************)
(* C20.  In a call that reaches the target on both sides, the sell tickets *)
(* are selected in descending order of computed price and the buy tickets  *)
(* in ascending order; on each side no ticket left out has a better price  *)
(* than a selected one, every selected ticket but the last is allocated    *)
(* its whole quantity, and the last is allocated exactly what is still     *)
(* needed to reach the target.                                             *)
(***************************************************************************)
C20_GreedySelectionByPrice ==
  [][(Optimizes /\ toastOptimize' \notin LiquidityErrors)
       => LET c == optimizing.commodityType
              q == optimizing.targetQty
          IN  /\ GreedyPrefix(ApprovedTickets("Sell", c), selectedSells(c, q), q, TRUE)
              /\ GreedyPrefix(ApprovedTickets("Buy", c), selectedBuys(c, q), q, FALSE)]_vars

\* sells {3 x 2, 2 x 2} in either arrival order, buy {1 x 3}, target 3: the order
\* takes sell 2 + 1 at 8/3 on average and buy 3 at 1
C20_Witness ==
  /\ createOrderMutation.isPending
  /\ LET d == createOrderMutation.orderData[1]
     IN  /\ d.allocated_quantity_mt = 3
         /\ Len(d.seller) = 2 /\ Len(d.buyer) = 1
         /\ d.sell_price = Frac(8, 3)
         /\ d.buy_price = Num(1)
         /\ d.seller[1] > d.seller[2]

\* the tickets an order row refers to: its buyer and its seller list
ReferencedTickets(row) ==
  {ticket[row.buyer[i]] : i \in 1..Len(row.buyer)}
    \cup {ticket[row.seller[i]] : i \in 1..Len(row.seller)}

(***************************************************************************)
(* C21.  A ticket whose quantity is zero or missing is never selected: no  *)
(* order row names it in its buyer or its seller list.                     *)
(***************************************************************************)
C21_ZeroQuantityTicketNeverSelected ==
  \A row \in OrderRows :
    \A t \in ReferencedTickets(row) : QuantityOrZero(t) > 0

\* x is consumed before y: by price, and by position in the fetched pool (a
\* row's id is its position) when the prices are equal
ConsumedBefore(x, y, highestFirst) ==
  IF calculateTicketPrice(x) = calculateTicketPrice(y) THEN x.id < y.id
  ELSE IF highestFirst THEN Less(calculateTicketPrice(y), calculateTicketPrice(x))
  ELSE Less(calculateTicketPrice(x), calculateTicketPrice(y))

\* ids lists the first tickets of the pool in the order of ConsumedBefore
PrefixInArrivalOrder(pool, ids, highestFirst) ==
  /\ \A i, j \in 1..Len(ids) :
       i < j => ConsumedBefore(ticket[ids[i]], ticket[ids[j]], highestFirst)
  /\ \A i \in 1..Len(ids) :
       \A k \in 1..Len(pool) :
         (\A j \in 1..Len(ids) : pool[k].id # ids[j])
           => ConsumedBefore(ticket[ids[i]], pool[k], highestFirst)

(***************************************************************************)
(* C22.  The selection is deterministic: the tickets of an order are the   *)
(* first tickets of the fetched pool in the order of price, equal-priced   *)
(* tickets in the order of the pool.  That order is total, so the pools    *)
(* and the target fix the tickets selected, and with them the allocations, *)
(* the average prices and the margin.                                      *)
(***************************************************************************)
C22_TiesConsumedInArrivalOrder ==
  [][CreatesOrder
       => LET c == optimizing.commodityType
              d == createOrderMutation'.orderData[1]
          IN  /\ PrefixInArrivalOrder(ApprovedTickets("Sell", c), d.seller, TRUE)
              /\ PrefixInArrivalOrder(ApprovedTickets("Buy", c), d.buyer, FALSE)]_vars

\* an order takes one of two sell tickets of the same price, the earlier one
C22_Witness ==
  /\ createOrderMutation.isPending
  /\ LET d == createOrderMutation.orderData[1]
     IN  /\ Len(d.seller) = 1
         /\ \E k \in 1..Len(ticket) :
              /\ k > d.seller[1]
              /\ ticket[k].type = "Sell"
              /\ ticket[k].status = "Approved"
              /\ ticket[k].commodity_type = d.commodity_type
              /\ QuantityOrZero(ticket[k]) > 0
              /\ calculateTicketPrice(ticket[k]) = calculateTicketPrice(ticket[d.seller[1]])

(***************************************************************************)
(* The claims about calculateTicketPrice are about one call of it: the     *)
(* ticket priced is ticket[1], the value returned is calculatedPrice.      *)
(***************************************************************************)

\* the call has returned for a ticket of the pricing type
Priced(pricing) == calculatedPrice # Null /\ ticket[1].pricing_type = pricing

\* the percentage the template engine reads a stored payable as (templateEngine.ts):
\* a value above 1.5 is a percentage, a value of at most 1.5 is a fraction
percentValue(payablePercent) ==
  IF Less(Frac(3, 2), payablePercent) THEN payablePercent
  ELSE Times(payablePercent, Num(100))

(***************************************************************************)
(* C23.  For a Formula ticket with a reference price and a payable value,  *)
(* calculateTicketPrice returns the reference price times the payable      *)
(* fraction, the stored payable divided by 100 when it is above 1.5 and    *)
(* taken as is otherwise: payable 57 and payable 0.57 price the same.      *)
(***************************************************************************)
C23_FormulaUsesNormalizedPayable ==
  (/\ Priced("Formula")
   /\ ticket[1].lme_price # Null
   /\ ticket[1].payable_percent # Null)
    => calculatedPrice[1]
         = Times(ticket[1].lme_price[1],
                 Over(percentValue(ticket[1].payable_percent[1]), Num(100)))

(***************************************************************************)
(* C24.  For an Index ticket with a reference price and a premium/discount *)
(* present, calculateTicketPrice returns reference price + premium for     *)
(* every signed premium, 0 and negative values included.                   *)
(***************************************************************************)
C24_IndexAddsSignedPremium ==
  (/\ Priced("Index")
   /\ ticket[1].lme_price # Null
   /\ ticket[1].premium_discount # Null)
    => calculatedPrice[1]
         = Plus(ticket[1].lme_price[1], ticket[1].premium_discount[1])

(***************************************************************************)
(* C25.  calculateTicketPrice returns a non-negative unit price for every  *)
(* ticket, in every pricing mode and for every signed input.               *)
(***************************************************************************)
C25_PriceIsNonNegative ==
  calculatedPrice # Null => GreaterEq(calculatedPrice[1], Num(0))

\* the place of a status on the way OPEN -> PARTIALLY_CLOSED -> CLOSED
StatusRank(status) ==
  IF status = "OPEN" THEN 0 ELSE IF status = "PARTIALLY_CLOSED" THEN 1 ELSE 2

(***************************************************************************)
(* C26.  In every step, no execution's status moves back on the way        *)
(* OPEN -> PARTIALLY_CLOSED -> CLOSED, no execution's open quantity grows, *)
(* and a closed_price that is set stays set.                               *)
(***************************************************************************)
C26_StatusOnlyMovesForward ==
  [][\A h \in Hedges :
       /\ StatusRank(hedge_execution'[h].status)
            >= StatusRank(hedge_execution[h].status)
       /\ OpenQuantity(h)' <= OpenQuantity(h)
       /\ hedge_execution[h].closed_price # Null
            => hedge_execution'[h].closed_price # Null]_vars

(***************************************************************************)
(* C28.  Conservation of hedged quantity.  Every execution starts with its *)
(* open quantity equal to its trade quantity and with no links; whenever   *)
(* no commit is under way, its open quantity plus the allocated quantities *)
(* of its hedge_link rows is its trade quantity.                           *)
(***************************************************************************)
C28_OpenPlusLinkedIsTradeQuantity ==
  (\A s \in Sessions : ~mutation[s].isPending)
    => \A h \in Hedges :
         OpenQuantity(h) + Allocated(LinksOf(h)) = hedge_row[h].quantity_mt

(***************************************************************************)
(* C27.  A run of handleOptimize, whether it succeeds or fails, writes     *)
(* nothing but at most one new order row: every step of the optimizer      *)
(* leaves the ticket table and the hedging tables as they are, and the     *)
(* order table changes only by the one row of the run's insert, after      *)
(* which the run has nothing left to write.                                *)
(***************************************************************************)
C27_OptimizeWritesOnlyOneOrderRow ==
  [][/\ ticket' = ticket
     /\ store' = store
     /\ \/ order' = order
        \/ /\ createOrderMutation.isPending
           /\ order' = Append(order, Inserted(createOrderMutation.orderData[1]))
           /\ ~createOrderMutation'.isPending
           /\ optimizing'.pc = "idle"]_vars

\* a run has inserted its order over a table of three tickets, all of them still
\* Approved with their quantities
C27_Witness ==
  /\ Len(order) = 1
  /\ toastOptimize = "Optimized orders created successfully"
  /\ Len(ticket) = 3
  /\ \A i \in 1..Len(ticket) : ticket[i].status = "Approved" /\ ticket[i].quantity # Null
  /\ Len(order[1].buyer) + Len(order[1].seller) = 3

(***************************************************************************)
(* C29.  Well-defined margin.  Every order row inserted has an average buy *)
(* price above 0 and a margin that is a number: no margin is the result of *)
(* a division by zero.                                                     *)
(***************************************************************************)
C29_InsertedOrderHasPositiveBuyPrice ==
  \A row \in OrderRows :
    /\ row.buy_price # Null
    /\ Less(Num(0), row.buy_price[1])
    /\ row.margin # Null

\* the direction a link of the side hedges against: the opposite one
OppositeDirection(side) == IF side = "BUY" THEN "Sell" ELSE "Buy"

(***************************************************************************)
(* C30.  Links only to eligible hedges.  Every hedge_link row a commit     *)
(* inserts names an execution that, in the store at the moment of the      *)
(* insert, is not CLOSED, has the metal of the link's fixing and has the   *)
(* direction opposite to the link's side.                                  *)
(***************************************************************************)
C30_LinksOnlyToEligibleHedges ==
  [][\A l \in hedge_link' \ hedge_link :
       /\ hedge_execution[l.hedge_execution_id].status # "CLOSED"
       /\ hedge_row[l.hedge_execution_id].metal
            = pricing_fixing[l.fixing_id].metal
       /\ hedge_row[l.hedge_execution_id].direction = OppositeDirection(l.side)]_vars

====
